---- MODULE Spec2Model ----
(***************************************************************************)
(* Model of src/app.py: the income-approach (DCF) valuation function       *)
(* income_valuation and the button handler that runs it, builds the yearly *)
(* table and evaluates the three "scenario" parameter sets.                *)
(*                                                                         *)
(* Numbers.  The program computes with Python floats.  The model computes  *)
(* with exact rationals <<n, d>> (d > 0, lowest terms), so every formula   *)
(* below is the real-number reading of the code; rounding, overflow to inf *)
(* and underflow to 0.0 of the floating-point format are not modelled.     *)
(* Raised exceptions are modelled as outcomes [status |-> <exception>].    *)
(***************************************************************************)
EXTENDS Integers, Sequences, FiniteSets, TLC

(* ------------------------- rational arithmetic ------------------------- *)

Abs(x) == IF x < 0 THEN -x ELSE x

RECURSIVE GCD(_, _)
GCD(a, b) == IF b = 0 THEN a ELSE GCD(b, a % b)

\* the rational n/d in lowest terms with a positive denominator (d # 0)
R(n, d) ==
    LET g == GCD(Abs(n), Abs(d))
        s == IF d < 0 THEN -1 ELSE 1
    IN  <<(s * n) \div g, (s * d) \div g>>

Zero == <<0, 1>>
One == <<1, 1>>

\* a + b
RAdd(a, b) ==
    LET g == GCD(a[2], b[2])
        l == (a[2] \div g) * b[2]
    IN  R(a[1] * (l \div a[2]) + b[1] * (l \div b[2]), l)

RNeg(a) == <<-a[1], a[2]>>

\* a - b
RSub(a, b) == RAdd(a, RNeg(b))

\* a * b
RMul(a, b) ==
    LET g1 == GCD(Abs(a[1]), b[2])
        g2 == GCD(Abs(b[1]), a[2])
    IN  <<(a[1] \div g1) * (b[1] \div g2), (a[2] \div g2) * (b[2] \div g1)>>

\* a / b, defined when b # 0 (the callers raise ZeroDivisionError otherwise)
RDiv(a, b) == RMul(a, R(b[2], b[1]))

\* a ** k for an integer k >= 0
RECURSIVE RPow(_, _)
RPow(a, k) == IF k <= 0 THEN One ELSE RMul(a, RPow(a, k - 1))

\* n1/d1 < n2/d2 for d1, d2 > 0, by comparing integer parts and then the
\* reciprocals of the fractional parts (no products, so no 32-bit overflow)
RECURSIVE FracLt(_, _, _, _)
FracLt(n1, d1, n2, d2) ==
    LET q1 == n1 \div d1
        q2 == n2 \div d2
        r1 == n1 % d1
        r2 == n2 % d2
    IN  IF q1 # q2 THEN q1 < q2
        ELSE IF r2 = 0 THEN FALSE
        ELSE IF r1 = 0 THEN TRUE
        ELSE FracLt(d2, r2, d1, r1)

\* a < b and a <= b
RLt(a, b) == FracLt(a[1], a[2], b[1], b[2])
RLe(a, b) == ~RLt(b, a)

\* np.sum over a sequence
RECURSIVE RSum(_)
RSum(s) == IF Len(s) = 0 THEN Zero ELSE RAdd(RSum(SubSeq(s, 1, Len(s) - 1)), s[Len(s)])

(* ------------------------------- bounds -------------------------------- *)

\* the longest valuation period (term) of the model
MaxTerm == 2

BaseRents == {R(1, 1), R(2, 1)}
Occupancies == {R(1, 2), R(1, 1)}
\* 3/2 is outside the documented range [0, 1); the widget accepts it
CostRatios == {R(0, 1), R(1, 2), R(3, 2)}
RentGrowths == {R(-2, 1), R(-1, 1), R(-1, 2), R(0, 1), R(1, 2)}
\* discount rates are positive (spec.md section 3), so 1 + discount_rate > 0
DiscountRates == {R(1, 4), R(1, 2), R(3, 4)}
LongGrowths == {R(-1, 2), R(0, 1), R(1, 4), R(1, 2)}
\* the widget has no minimum: zero and negative periods can be entered
Terms == -1..MaxTerm
Areas == {R(1, 1), R(2, 1)}
\* st.slider(..., 1, 20, 5): an integer percentage in 1..20; 20 gives the
\* factors 6/5 and 4/5, which keep every intermediate value within 32 bits
Deltas == {20}

(* --------------------------- income_valuation -------------------------- *)

\* variant: the range stops one year early, range(1, int(term))
YearRange_m(term) == 1..(term - 1)

\* range(1, int(term) + 1)
YearRange(term) == 1..term

\* variant: compounding with rent_growth instead of 1 + rent_growth
rent_t_m(b, rg, occ, ar, t) ==
    RMul(RMul(RMul(RMul(b, RPow(rg, t)), occ), ar), R(12, 1))

\* rent_t = base_rent * ((1 + rent_growth) ** t) * occupancy * area * 12
rent_t(b, rg, occ, ar, t) ==
    RMul(RMul(RMul(RMul(b, RPow(RAdd(One, rg), t)), occ), ar), R(12, 1))

\* cost_t = rent_t * cost_ratio
cost_t(rent, cr) == RMul(rent, cr)

\* the list nois after the loop: one rent_t - cost_t per year of the range
NoiList(b, rg, occ, cr, term, ar) ==
    [t \in YearRange(term) |->
        RSub(rent_t(b, rg, occ, ar, t), cost_t(rent_t(b, rg, occ, ar, t), cr))]

\* tv = nois[-1] * (1 + long_growth) / (discount_rate - long_growth)
TerminalValue(ns, dr, lg) ==
    RDiv(RMul(ns[Len(ns)], RAdd(One, lg)), RSub(dr, lg))

\* years = np.arange(1, int(term) + 1)
Years(term) == [i \in 1..term |-> i]

\* variant: the discount factor multiplies instead of dividing
PresentValues_m(ns, dr, ys) ==
    [i \in 1..Len(ns) |-> RMul(ns[i], RPow(RAdd(One, dr), ys[i]))]

\* pvs = np.array(nois) / ((1 + discount_rate) ** years)
PresentValues(ns, dr, ys) ==
    [i \in 1..Len(ns) |-> RDiv(ns[i], RPow(RAdd(One, dr), ys[i]))]

\* variant: the terminal value is discounted one year further
TerminalExponent_m(term) == term + 1

\* the exponent applied to the terminal value: (1 + discount_rate) ** term
TerminalExponent(term) == term

\* total_value = np.sum(pvs) + tv / ((1 + discount_rate) ** term)
TotalValue(ps, tvv, dr, term) ==
    RAdd(RSum(ps), RDiv(tvv, RPow(RAdd(One, dr), TerminalExponent(term))))

\* variant: an empty projection is valued at zero instead of failing
income_valuation_m(b, rg, occ, cr, dr, lg, term, ar) ==
    LET ns == NoiList(b, rg, occ, cr, term, ar)
    IN  IF Len(ns) = 0
        THEN [status |-> "ok", nois |-> ns, pvs |-> ns, total_value |-> Zero]
        ELSE IF RSub(dr, lg) = Zero
        THEN [status |-> "ZeroDivisionError"]
        ELSE LET ps == PresentValues(ns, dr, Years(term))
             IN  [status |-> "ok", nois |-> ns, pvs |-> ps,
                  total_value |-> TotalValue(ps, TerminalValue(ns, dr, lg), dr, term)]

\* The call as a whole.  nois[-1] on an empty list raises IndexError; a float
\* division by 0.0 raises ZeroDivisionError; nothing else is checked.
income_valuation(b, rg, occ, cr, dr, lg, term, ar) ==
    LET ns == NoiList(b, rg, occ, cr, term, ar)
    IN  IF Len(ns) = 0
        THEN [status |-> "IndexError"]
        ELSE IF RSub(dr, lg) = Zero
        THEN [status |-> "ZeroDivisionError"]
        ELSE LET ps == PresentValues(ns, dr, Years(term))
             IN  [status |-> "ok", nois |-> ns, pvs |-> ps,
                  total_value |-> TotalValue(ps, TerminalValue(ns, dr, lg), dr, term)]

(* ------------------------------ scenarios ------------------------------ *)

\* 1 + delta/100 and 1 - delta/100
UpFactor(d) == RAdd(One, RDiv(R(d, 1), R(100, 1)))
DownFactor(d) == RSub(One, RDiv(R(d, 1), R(100, 1)))

\* the value list of the "Base" entry
BaseVals(b, rg, occ, cr, dr, lg) == <<b, rg, occ, cr, dr, lg>>

\* variant: the "+Δ" entry perturbed in the downside direction
UpVals_m(b, rg, occ, cr, dr, lg, d) ==
    <<RMul(b, DownFactor(d)), RMul(rg, DownFactor(d)), RMul(occ, DownFactor(d)), cr,
      RMul(dr, UpFactor(d)), RMul(lg, DownFactor(d))>>

\* the value list of the "+Δ" entry
UpVals(b, rg, occ, cr, dr, lg, d) ==
    <<RMul(b, UpFactor(d)), RMul(rg, UpFactor(d)), RMul(occ, UpFactor(d)), cr,
      RMul(dr, DownFactor(d)), RMul(lg, UpFactor(d))>>

\* variant: the "-Δ" entry also scales cost_ratio
DownVals_m(b, rg, occ, cr, dr, lg, d) ==
    <<RMul(b, DownFactor(d)), RMul(rg, DownFactor(d)), RMul(occ, DownFactor(d)),
      RMul(cr, UpFactor(d)), RMul(dr, UpFactor(d)), RMul(lg, DownFactor(d))>>

\* the value list of the "-Δ" entry
DownVals(b, rg, occ, cr, dr, lg, d) ==
    <<RMul(b, DownFactor(d)), RMul(rg, DownFactor(d)), RMul(occ, DownFactor(d)), cr,
      RMul(dr, UpFactor(d)), RMul(lg, DownFactor(d))>>

\* the dict scenarios, as the sequence of its items in insertion order
ScenarioDict(b, rg, occ, cr, dr, lg, d) ==
    << [key |-> "Base", vals |-> BaseVals(b, rg, occ, cr, dr, lg)],
       [key |-> "+Δ", vals |-> UpVals(b, rg, occ, cr, dr, lg, d)],
       [key |-> "-Δ", vals |-> DownVals(b, rg, occ, cr, dr, lg, d)] >>

\* income_valuation(*vals, term, area)
ScenarioCall(vals, tm, ar) ==
    income_valuation(vals[1], vals[2], vals[3], vals[4], vals[5], vals[6], tm, ar)

\* the "Scenario" column of sim_df
SimLabels == <<"-Δ", "Base", "+Δ">>

\* values[::-1]
Reversed(s) == [i \in 1..Len(s) |-> s[Len(s) + 1 - i]]

\* sim_df: row i pairs SimLabels[i] with values[::-1][i]
SimFrame(vs) == [i \in 1..Len(SimLabels) |-> [Scenario |-> SimLabels[i], Valuation |-> Reversed(vs)[i]]]

(* -------------------------------- state -------------------------------- *)

VARIABLES
    base_rent, occupancy, cost_ratio, rent_growth, discount_rate, long_growth,
    term, area, scenario_enable, delta,   \* the widgets' values
    pc,            \* position of the script run
    nois, pvs, total_value,               \* result of the call at the button
    df,            \* the yearly table
    scenarios,     \* the dict scenarios
    key_idx,       \* position of the for loop in scenarios.items()
    values,        \* the list values
    sim_df,        \* the scenario table
    exc            \* the exception that ended the run, "" if none

inputs == <<base_rent, occupancy, cost_ratio, rent_growth, discount_rate,
            long_growth, term, area, scenario_enable, delta>>
run == <<pc, nois, pvs, total_value, df, scenarios, key_idx, values, sim_df, exc>>
vars == <<inputs, run>>

\* a name that is not bound yet
None == <<>>

Init ==
    /\ base_rent \in BaseRents
    /\ occupancy \in Occupancies
    /\ cost_ratio \in CostRatios
    /\ rent_growth \in RentGrowths
    /\ discount_rate \in DiscountRates
    /\ long_growth \in LongGrowths
    /\ term \in Terms
    /\ area \in Areas
    /\ scenario_enable \in BOOLEAN
    /\ delta \in Deltas
    /\ pc = "idle"
    /\ nois = None /\ pvs = None /\ total_value = None
    /\ df = None /\ scenarios = None /\ key_idx = 0
    /\ values = <<>> /\ sim_df = None /\ exc = ""

\* A widget changes: the script reruns with the button not pressed, so
\* nothing below "if st.button" runs and no result is bound.
EditInputs ==
    /\ pc \in {"idle", "done", "aborted"}
    /\ \/ base_rent' \in BaseRents /\ UNCHANGED <<occupancy, cost_ratio, rent_growth, discount_rate, long_growth, term, area, scenario_enable, delta>>
       \/ occupancy' \in Occupancies /\ UNCHANGED <<base_rent, cost_ratio, rent_growth, discount_rate, long_growth, term, area, scenario_enable, delta>>
       \/ cost_ratio' \in CostRatios /\ UNCHANGED <<base_rent, occupancy, rent_growth, discount_rate, long_growth, term, area, scenario_enable, delta>>
       \/ rent_growth' \in RentGrowths /\ UNCHANGED <<base_rent, occupancy, cost_ratio, discount_rate, long_growth, term, area, scenario_enable, delta>>
       \/ discount_rate' \in DiscountRates /\ UNCHANGED <<base_rent, occupancy, cost_ratio, rent_growth, long_growth, term, area, scenario_enable, delta>>
       \/ long_growth' \in LongGrowths /\ UNCHANGED <<base_rent, occupancy, cost_ratio, rent_growth, discount_rate, term, area, scenario_enable, delta>>
       \/ term' \in Terms /\ UNCHANGED <<base_rent, occupancy, cost_ratio, rent_growth, discount_rate, long_growth, area, scenario_enable, delta>>
       \/ area' \in Areas /\ UNCHANGED <<base_rent, occupancy, cost_ratio, rent_growth, discount_rate, long_growth, term, scenario_enable, delta>>
       \/ scenario_enable' \in BOOLEAN /\ UNCHANGED <<base_rent, occupancy, cost_ratio, rent_growth, discount_rate, long_growth, term, area, delta>>
       \/ delta' \in Deltas /\ UNCHANGED <<base_rent, occupancy, cost_ratio, rent_growth, discount_rate, long_growth, term, area, scenario_enable>>
    /\ pc' = "idle"
    /\ nois' = None /\ pvs' = None /\ total_value' = None
    /\ df' = None /\ scenarios' = None /\ key_idx' = 0
    /\ values' = <<>> /\ sim_df' = None /\ exc' = ""

\* The button is pressed: the script reruns and calls income_valuation on
\* the widgets' values.  An exception ends the run.
Calc ==
    /\ pc \in {"idle", "done", "aborted"}
    /\ LET r == income_valuation(base_rent, rent_growth, occupancy, cost_ratio,
                                 discount_rate, long_growth, term, area)
       IN  IF r.status = "ok"
           THEN /\ nois' = r.nois /\ pvs' = r.pvs /\ total_value' = r.total_value
                /\ pc' = "report" /\ exc' = ""
           ELSE /\ nois' = None /\ pvs' = None /\ total_value' = None
                /\ pc' = "aborted" /\ exc' = r.status
    /\ df' = None /\ scenarios' = None /\ key_idx' = 0
    /\ values' = <<>> /\ sim_df' = None
    /\ UNCHANGED inputs

\* The metrics, the yearly table df, its chart and the Excel export.
Report ==
    /\ pc = "report"
    /\ df' = [Year |-> Years(term), NOI |-> nois, PV |-> pvs]
    /\ pc' = "scenario"
    /\ UNCHANGED <<inputs, nois, pvs, total_value, scenarios, key_idx, values, sim_df, exc>>

\* if scenario_enable: false
SkipScenarios ==
    /\ pc = "scenario"
    /\ ~scenario_enable
    /\ pc' = "done"
    /\ UNCHANGED <<inputs, nois, pvs, total_value, df, scenarios, key_idx, values, sim_df, exc>>

\* if scenario_enable: the dict scenarios and the empty list values
BuildScenarios ==
    /\ pc = "scenario"
    /\ scenario_enable
    /\ scenarios' = ScenarioDict(base_rent, rent_growth, occupancy, cost_ratio,
                                 discount_rate, long_growth, delta)
    /\ values' = <<>>
    /\ key_idx' = 1
    /\ pc' = "loop"
    /\ UNCHANGED <<inputs, nois, pvs, total_value, df, sim_df, exc>>

\* one iteration of: for key, vals in scenarios.items()
ScenarioIter ==
    /\ pc = "loop"
    /\ key_idx <= Len(scenarios)
    /\ LET r == ScenarioCall(scenarios[key_idx].vals, term, area)
       IN  IF r.status = "ok"
           THEN /\ values' = Append(values, RDiv(r.total_value, R(10000, 1)))
                /\ key_idx' = key_idx + 1
                /\ pc' = "loop" /\ exc' = ""
           ELSE /\ pc' = "aborted" /\ exc' = r.status
                /\ UNCHANGED <<values, key_idx>>
    /\ UNCHANGED <<inputs, nois, pvs, total_value, df, scenarios, sim_df>>

\* after the loop: sim_df and its bar chart
SimDf ==
    /\ pc = "loop"
    /\ key_idx > Len(scenarios)
    /\ sim_df' = SimFrame(values)
    /\ pc' = "done"
    /\ UNCHANGED <<inputs, nois, pvs, total_value, df, scenarios, key_idx, values, exc>>

Next ==
    \/ EditInputs
    \/ Calc
    \/ Report
    \/ SkipScenarios
    \/ BuildScenarios
    \/ ScenarioIter
    \/ SimDf

Spec == Init /\ [][Next]_vars

(* ------------------------------ properties ----------------------------- *)

\* the call at the button has been made in this run
Called == pc # "idle"
\* ... and it returned
Returned == total_value # None
Ten4 == R(10000, 1)

\* C1: whenever discount_rate <= long_growth, the call ends in an error and
\* binds no numeric result.
C1_NoResultWhenRateNotAboveGrowth ==
    (Called /\ RLe(discount_rate, long_growth)) => (exc # "" /\ ~Returned)

\* C2: whenever term < 1 the call fails with the invalid-term error (the
\* IndexError of nois[-1] on the empty list) and binds no result, whatever the
\* other inputs are.
C2_InvalidTermFails ==
    (Called /\ term < 1) =>
        /\ pc = "aborted" /\ exc = "IndexError"
        /\ nois = None /\ pvs = None /\ total_value = None

C2_Witness ==
    /\ pc = "aborted" /\ term < 1 /\ exc = "IndexError"
    /\ RLt(long_growth, discount_rate)

\* the figures as spec.md states them, from the widgets' values
SpecNoi(t) ==
    RMul(RMul(RMul(RMul(RMul(base_rent, RPow(RAdd(One, rent_growth), t)), occupancy),
                   area), R(12, 1)), RSub(One, cost_ratio))
SpecPV(t) == RDiv(SpecNoi(t), RPow(RAdd(One, discount_rate), t))
RECURSIVE SpecSumPV(_)
SpecSumPV(n) == IF n < 1 THEN Zero ELSE RAdd(SpecSumPV(n - 1), SpecPV(n))
SpecTerminal ==
    RDiv(RMul(SpecNoi(term), RAdd(One, long_growth)), RSub(discount_rate, long_growth))
SpecTotal ==
    RAdd(SpecSumPV(term), RDiv(SpecTerminal, RPow(RAdd(One, discount_rate), term)))

\* C3: for term >= 1 and discount_rate > long_growth the call returns
\* noi(t) = rent(t) * (1 - cost_ratio) with compounding from exponent 1,
\* pv(t) = noi(t) / (1 + discount_rate)^t, and total_value = sum of pv plus the
\* terminal value discounted with exponent term.
C3_ReturnsDocumentedFigures ==
    (Called /\ term >= 1 /\ RLt(long_growth, discount_rate)) =>
        /\ Returned
        /\ nois = [t \in 1..term |-> SpecNoi(t)]
        /\ pvs = [t \in 1..term |-> SpecPV(t)]
        /\ total_value = SpecTotal

C3_Witness ==
    /\ pc = "report" /\ term >= 2 /\ RLt(long_growth, discount_rate)
    /\ rent_growth # Zero /\ cost_ratio # Zero /\ total_value # Zero

\* C4: after a successful call nois and pvs have length exactly term, are not
\* empty, and the yearly table numbers its rows 1..term in increasing order.
C4_SequencesHaveLengthTerm ==
    Returned =>
        /\ term >= 1
        /\ Len(nois) = term /\ Len(pvs) = term
        /\ DOMAIN nois = 1..term /\ DOMAIN pvs = 1..term
        /\ df # None =>
            /\ Len(df.Year) = term /\ df.NOI = nois /\ df.PV = pvs
            /\ \A i \in 1..term : df.Year[i] = i
            /\ \A i \in 1..(term - 1) : df.Year[i] < df.Year[i + 1]

C4_Witness == pc = "scenario" /\ Returned /\ term = MaxTerm /\ Len(df.Year) = term

\* the entry of the dict scenarios with the given key
EntryOf(k) == CHOOSE e \in {scenarios[i] : i \in 1..Len(scenarios)} : e.key = k

\* C5: every row of sim_df reports, under its label, the valuation of that
\* label's own parameter set.
C5_LabelsPairedWithOwnValuation ==
    sim_df # None =>
        \A i \in 1..Len(sim_df) :
            sim_df[i].Valuation =
                RDiv(ScenarioCall(EntryOf(sim_df[i].Scenario).vals, term, area).total_value, Ten4)

\* all three scenario calls returned; values holds Base, +Δ, -Δ in this order
AllThree == Len(values) = 3

C6_Domain ==
    /\ RLt(Zero, base_rent) /\ RLt(Zero, occupancy) /\ RLt(Zero, area)
    /\ RLe(cost_ratio, One)
    /\ RLe(Zero, rent_growth) /\ RLe(Zero, long_growth)
    /\ RLt(RMul(long_growth, UpFactor(delta)), RMul(discount_rate, DownFactor(delta)))

TotalAt(d) ==
    income_valuation(base_rent, rent_growth, occupancy, cost_ratio, d,
                     long_growth, term, area).total_value

\* C7 as stated: a larger discount rate (both above long_growth, all else
\* equal) gives a strictly smaller total_value.
C7_Original ==
    (Returned /\ RLt(long_growth, discount_rate)) =>
        \A d \in DiscountRates :
            RLt(discount_rate, d) => RLt(TotalAt(d), total_value)

\* inputs for which every yearly NOI is strictly positive
C7_Domain ==
    /\ RLt(Zero, base_rent) /\ RLt(Zero, occupancy) /\ RLt(Zero, area)
    /\ RLt(cost_ratio, One)
    /\ RLt(R(-1, 1), rent_growth)

\* C7 amended: when every yearly NOI is positive, a larger discount rate
\* gives a strictly smaller total_value.
C7_DecreasingOnDomain ==
    (Returned /\ RLt(long_growth, discount_rate) /\ C7_Domain) =>
        \A d \in DiscountRates :
            RLt(discount_rate, d) => RLt(TotalAt(d), total_value)

C7_Witness ==
    /\ pc = "report" /\ C7_Domain /\ term >= 2
    /\ RLt(long_growth, discount_rate)
    /\ \E d \in DiscountRates : RLt(discount_rate, d) /\ RLt(TotalAt(d), total_value)

\* C8 as stated: with base_rent, occupancy and area positive, every year's
\* gross rent is positive for any rent_growth.
C8_Original ==
    (Called /\ RLt(Zero, base_rent) /\ RLt(Zero, occupancy) /\ RLt(Zero, area)) =>
        \A t \in YearRange(term) :
            RLt(Zero, rent_t(base_rent, rent_growth, occupancy, area, t))

\* C8 amended: ... for any rent_growth above -1.
C8_PositiveRent ==
    (Called /\ RLt(Zero, base_rent) /\ RLt(Zero, occupancy) /\ RLt(Zero, area)
            /\ RLt(R(-1, 1), rent_growth)) =>
        \A t \in YearRange(term) :
            /\ RLt(Zero, rent_t(base_rent, rent_growth, occupancy, area, t))
            /\ (Returned /\ cost_ratio = Zero) => RLt(Zero, nois[t])

C8_Witness ==
    /\ pc = "report" /\ term >= 2 /\ RLt(rent_growth, Zero) /\ RLt(R(-1, 1), rent_growth)
    /\ cost_ratio = Zero /\ RLt(Zero, nois[term])

\* C9: in the three scenario sets cost_ratio is the widget's value, the Base
\* set is the widgets' values unchanged, and every scenario is valued with the
\* widgets' term and area.
C9_FrameOfScenarios ==
    scenarios # None =>
        /\ Len(scenarios) = 3
        /\ \A i \in 1..Len(scenarios) : scenarios[i].vals[4] = cost_ratio
        /\ scenarios[1].key = "Base"
        /\ scenarios[1].vals = <<base_rent, rent_growth, occupancy, cost_ratio,
                                 discount_rate, long_growth>>
        /\ \A i \in 1..Len(values) :
              values[i] = RDiv(income_valuation(scenarios[i].vals[1], scenarios[i].vals[2],
                                   scenarios[i].vals[3], cost_ratio, scenarios[i].vals[5],
                                   scenarios[i].vals[6], term, area).total_value, Ten4)

C9_Witness ==
    /\ pc = "done" /\ AllThree /\ cost_ratio # Zero
    /\ scenarios[2].vals[1] # base_rent /\ scenarios[3].vals[5] # discount_rate

\* C10: when the run has ended, every scenario whose own parameter set is
\* valid has had its valuation computed and appended to values.
C10_SiblingsStillComputed ==
    (pc \in {"done", "aborted"} /\ scenarios # None) =>
        \A i \in 1..Len(scenarios) :
            LET r == ScenarioCall(scenarios[i].vals, term, area)
            IN  r.status = "ok" =>
                    \E j \in 1..Len(values) : values[j] = RDiv(r.total_value, Ten4)

====
